---- MODULE Spec2Model ----
(***************************************************************************)
(* Registro: an in-memory service registry (REST server).                  *)
(*                                                                         *)
(* The server keeps s.Applications, a slice of pointers to Application     *)
(* objects; each Application keeps a slice of pointers to Instance         *)
(* objects.  One goroutine runs per HTTP request and one goroutine runs    *)
(* the heartbeat sweep; none of them takes a lock, so every load and store *)
(* of the shared slices and fields is a step of its own here.              *)
(***************************************************************************)
EXTENDS Integers, Sequences, FiniteSets, TLC

\* ------------------------------------------------------------------ bounds
MaxHandlers == 2
MaxApps == 2
MaxInsts == 2
MaxRequests == 4
MaxLen == 3

Handlers == 1..MaxHandlers
AppNames == {"a1", "a2"}
InstIds == {"i1", "i2"}

\* --------------------------------------------------------------- constants
STARTING == "starting"
UP == "up"
DOWN == "down"
OUTOFSERVICE == "out-of-service"

renewalTimeout == 90
evictionTimeout == 600

\* The instants at which the registry is observed (Unix seconds): around the
\* two timeouts for the timed specification, one past each for the others.
RaceTimes == {0, evictionTimeout + 1}

TimePoints ==
    {0, 1, renewalTimeout, renewalTimeout + 1, renewalTimeout + 2,
     evictionTimeout, evictionTimeout + 1, evictionTimeout + 2}

Nil == 0
NoInstance == [Id |-> "", Status |-> "", LastRenewal |-> 0]

VARIABLES
    now,           \* time.Now().Unix()
    Applications,  \* s.Applications: sequence of Application pointers
    appHeap,       \* Application objects, by pointer
    instHeap,      \* Instance objects, by pointer
    hs,            \* the request goroutines: position and locals
    sw,            \* the sweep goroutine: position and range state
    served,        \* requests accepted so far (bounded by MaxRequests)
    cl,            \* the clients running RegisterService: position
    was            \* history: the status a deregistration in flight overwrote

vars == <<now, Applications, appHeap, instHeap, hs, sw, served, cl, was>>

\* ----------------------------------------------------------- constructors
NewApplication(name) == [Name |-> name, Instances |-> <<>>]

NewInstance(id, t) == [Id |-> id, Status |-> STARTING, LastRenewal |-> t]

\* ----------------------------------------------------------------- lookup
RECURSIVE FirstApp(_, _)
FirstApp(ptrs, name) ==
    IF ptrs = <<>> THEN Nil
    ELSE IF appHeap[Head(ptrs)].Name = name THEN Head(ptrs)
    ELSE FirstApp(Tail(ptrs), name)

GetApplication(name) == FirstApp(Applications, name)

RECURSIVE FirstInst(_, _)
FirstInst(ptrs, id) ==
    IF ptrs = <<>> THEN Nil
    ELSE IF instHeap[Head(ptrs)].Id = id THEN Head(ptrs)
    ELSE FirstInst(Tail(ptrs), id)

GetInstance(a, id) == FirstInst(appHeap[a].Instances, id)

\* Variant of IsUp that also lets starting instances through.
IsUpOrStarting(p) == instHeap[p].Status \in {UP, STARTING}

IsUp(p) == instHeap[p].Status = UP

GetAvailableInstances(a) == SelectSeq(appHeap[a].Instances, IsUp)

\* ------------------------------------------------------ instance mutators
Touch(i, t) == [i EXCEPT !.LastRenewal = t]

\* Variant of renewRejected that tests the wrong status.
renewRejectedDown(i) == i.Status = DOWN

renewRejected(i) == i.Status = OUTOFSERVICE

\* Variant of renewStatus that revives only DOWN instances.
renewStatusFromDown(i) == IF i.Status = DOWN THEN [i EXCEPT !.Status = UP] ELSE i

renewStatus(i) == IF i.Status # UP THEN [i EXCEPT !.Status = UP] ELSE i

\* Variant of deleteStatus that only takes running instances out of service.
deleteStatusIfUp(i) == IF i.Status = UP THEN [i EXCEPT !.Status = OUTOFSERVICE] ELSE i

deleteStatus(i) == [i EXCEPT !.Status = OUTOFSERVICE]

\* ------------------------------------------------------------------ sweep
MissedHeartbeat(i, t) ==
    i.Status \in {STARTING, UP} /\ t - i.LastRenewal > renewalTimeout

Evictable(i, t) ==
    i.Status = DOWN /\ t - i.LastRenewal > evictionTimeout

Kept(p) == ~Evictable(instHeap[p], now)

InApp(a, p) == \E k \in 1..Len(appHeap[a].Instances) : appHeap[a].Instances[k] = p

\* ---------------------------------------------------------------- handlers
IdleHandler ==
    [pc |-> "idle", method |-> "", name |-> "", id |-> "", app |-> Nil,
     inst |-> Nil, obj |-> NoInstance, snap |-> <<>>, code |-> 0]

Done(h, c) ==
    [IdleHandler EXCEPT !.pc = "done", !.method = hs[h].method, !.app = hs[h].app,
                        !.inst = hs[h].inst, !.code = c]

Pending(pcs) == Cardinality({h \in Handlers : hs[h].pc \in pcs})

Init ==
    /\ now = 0
    /\ Applications = <<>>
    /\ appHeap = <<>>
    /\ instHeap = <<>>
    /\ hs = [h \in Handlers |-> IdleHandler]
    /\ sw = [pc |-> "idle", apps |-> <<>>, idx |-> 0]
    /\ served = 0
    /\ cl = [c \in Handlers |-> "get_app"]
    /\ was = [h \in Handlers |-> ""]

\* POST /apps: newApp, then the existence check.
PostApps(h, name) ==
    /\ hs[h].pc = "idle"
    /\ served < MaxRequests
    /\ served' = served + 1
    /\ Len(appHeap) + Pending({"apps_read", "apps_write"}) < MaxApps
    /\ LET r == [IdleHandler EXCEPT !.method = "POST", !.name = name]
       IN  hs' = [hs EXCEPT ![h] =
                IF GetApplication(name) # Nil
                THEN [IdleHandler EXCEPT !.pc = "done", !.method = "POST", !.code = 409]
                ELSE [r EXCEPT !.pc = "apps_read"]]
    /\ UNCHANGED <<cl, was, now, Applications, appHeap, instHeap, sw>>

\* s.Applications = append(s.Applications, app): the load of the slice.
AppsRead(h) ==
    /\ hs[h].pc = "apps_read"
    /\ hs' = [hs EXCEPT ![h].pc = "apps_write", ![h].snap = Applications]
    /\ UNCHANGED <<cl, was, now, Applications, appHeap, instHeap, sw, served>>

\* ... and the store of the grown slice, then 201.
AppsWrite(h) ==
    /\ hs[h].pc = "apps_write"
    /\ appHeap' = Append(appHeap, NewApplication(hs[h].name))
    /\ Applications' = Append(hs[h].snap, Len(appHeap) + 1)
    /\ hs' = [hs EXCEPT ![h] = [Done(h, 201) EXCEPT !.snap = <<>>]]
    /\ UNCHANGED <<cl, was, now, instHeap, sw, served>>

\* GET /apps: listApps.
ListApps(h) ==
    /\ hs[h].pc = "idle"
    /\ served < MaxRequests
    /\ served' = served + 1
    /\ hs' = [hs EXCEPT ![h] =
                [IdleHandler EXCEPT !.pc = "done", !.method = "LIST", !.code = 200]]
    /\ UNCHANGED <<cl, was, now, Applications, appHeap, instHeap, sw>>

\* /apps/{appName}: the application lookup, then GET (viewApp) or POST
\* (newInstance, which reads nothing shared but the clock; request bodies are
\* well formed).
ViewApp(h, method, name, id) ==
    /\ hs[h].pc = "idle"
    /\ served < MaxRequests
    /\ served' = served + 1
    /\ method \in {"GET", "POST"}
    /\ method = "POST" =>
          Len(instHeap) + Pending({"add_check", "add_read", "add_write"}) < MaxInsts
    /\ LET a == GetApplication(name)
           r == [IdleHandler EXCEPT !.method = method, !.name = name, !.app = a]
       IN  hs' = [hs EXCEPT ![h] =
                IF a = Nil THEN [IdleHandler EXCEPT !.pc = "done", !.method = method, !.code = 404]
                ELSE IF method = "GET" THEN [IdleHandler EXCEPT !.pc = "done", !.method = method, !.app = a, !.code = 200]
                ELSE [r EXCEPT !.pc = "add_check", !.id = id,
                                !.obj = NewInstance(id, now)]]
    /\ UNCHANGED <<cl, was, now, Applications, appHeap, instHeap, sw>>

\* Check if instance already exists.
AddCheck(h) ==
    /\ hs[h].pc = "add_check"
    /\ hs' = [hs EXCEPT ![h] =
                IF GetInstance(hs[h].app, hs[h].id) # Nil
                THEN [Done(h, 409) EXCEPT !.obj = NoInstance]
                ELSE [hs[h] EXCEPT !.pc = "add_read"]]
    /\ UNCHANGED <<cl, was, now, Applications, appHeap, instHeap, sw, served>>

\* app.Instances = append(app.Instances, inst): the load of the slice.
AddRead(h) ==
    /\ hs[h].pc = "add_read"
    /\ hs' = [hs EXCEPT ![h].pc = "add_write",
                        ![h].snap = appHeap[hs[h].app].Instances]
    /\ UNCHANGED <<cl, was, now, Applications, appHeap, instHeap, sw, served>>

\* ... and the store of the grown slice, then 201.
AddWrite(h) ==
    /\ hs[h].pc = "add_write"
    /\ instHeap' = Append(instHeap, hs[h].obj)
    /\ appHeap' = [appHeap EXCEPT ![hs[h].app].Instances =
                        Append(hs[h].snap, Len(instHeap) + 1)]
    /\ hs' = [hs EXCEPT ![h] =
                [Done(h, 201) EXCEPT !.snap = <<>>, !.obj = NoInstance,
                                     !.inst = Len(instHeap) + 1]]
    /\ UNCHANGED <<cl, was, now, Applications, sw, served>>

\* /apps/{appName}/{instanceId}: the application lookup.
ViewInstance(h, method, name, id) ==
    /\ hs[h].pc = "idle"
    /\ served < MaxRequests
    /\ served' = served + 1
    /\ method \in {"GET", "PUT", "DELETE"}
    /\ LET a == GetApplication(name)
           r == [IdleHandler EXCEPT !.method = method, !.name = name,
                                    !.id = id, !.app = a]
       IN  hs' = [hs EXCEPT ![h] =
                IF a = Nil THEN [IdleHandler EXCEPT !.pc = "done", !.method = method, !.code = 404]
                ELSE [r EXCEPT !.pc = "inst_get"]]
    /\ UNCHANGED <<cl, was, now, Applications, appHeap, instHeap, sw>>

\* Variant of InstGet without the nil check: a request for an instance that is
\* not there is answered like a lookup that succeeded.
InstGetNoCheck(h) ==
    /\ hs[h].pc = "inst_get"
    /\ LET p == GetInstance(hs[h].app, hs[h].id)
       IN  hs' = [hs EXCEPT ![h] =
                IF p = Nil \/ hs[h].method = "GET" THEN [Done(h, 200) EXCEPT !.inst = p]
                ELSE IF hs[h].method = "PUT"
                     THEN [hs[h] EXCEPT !.pc = "renew_check", !.inst = p]
                ELSE [hs[h] EXCEPT !.pc = "delete_set", !.inst = p]]
    /\ UNCHANGED <<cl, was, now, Applications, appHeap, instHeap, sw, served>>

\* The instance lookup, then the switch on the method.
InstGet(h) ==
    /\ hs[h].pc = "inst_get"
    /\ LET p == GetInstance(hs[h].app, hs[h].id)
       IN  hs' = [hs EXCEPT ![h] =
                IF p = Nil THEN Done(h, 404)
                ELSE IF hs[h].method = "GET" THEN [Done(h, 200) EXCEPT !.inst = p]
                ELSE IF hs[h].method = "PUT"
                     THEN [hs[h] EXCEPT !.pc = "renew_check", !.inst = p]
                ELSE [hs[h] EXCEPT !.pc = "delete_set", !.inst = p]]
    /\ UNCHANGED <<cl, was, now, Applications, appHeap, instHeap, sw, served>>

\* renewInstance: if inst.Status == OUTOFSERVICE { 403 }.
RenewCheck(h) ==
    /\ hs[h].pc = "renew_check"
    /\ hs' = [hs EXCEPT ![h] =
                IF renewRejected(instHeap[hs[h].inst]) THEN Done(h, 403)
                ELSE [hs[h] EXCEPT !.pc = "renew_up"]]
    /\ UNCHANGED <<cl, was, now, Applications, appHeap, instHeap, sw, served>>

\* renewInstance: if inst.Status != UP { inst.Status = UP }.
RenewUp(h) ==
    /\ hs[h].pc = "renew_up"
    /\ instHeap' = [instHeap EXCEPT ![hs[h].inst] = renewStatus(@)]
    /\ hs' = [hs EXCEPT ![h].pc = "renew_touch"]
    /\ UNCHANGED <<cl, was, now, Applications, appHeap, sw, served>>

\* Variant of RenewTouch that answers 204 without the Touch.
RenewNoTouch(h) ==
    /\ hs[h].pc = "renew_touch"
    /\ hs' = [hs EXCEPT ![h] = Done(h, 204)]
    /\ UNCHANGED <<cl, was, now, Applications, appHeap, instHeap, sw, served>>

\* renewInstance: inst.Touch(); 204.
RenewTouch(h) ==
    /\ hs[h].pc = "renew_touch"
    /\ instHeap' = [instHeap EXCEPT ![hs[h].inst] = Touch(@, now)]
    /\ hs' = [hs EXCEPT ![h] = Done(h, 204)]
    /\ UNCHANGED <<cl, was, now, Applications, appHeap, sw, served>>

\* deleteInstance: inst.Status = OUTOFSERVICE (the status it overwrites is
\* kept in the history variable).
DeleteSet(h) ==
    /\ hs[h].pc = "delete_set"
    /\ instHeap' = [instHeap EXCEPT ![hs[h].inst] = deleteStatus(@)]
    /\ hs' = [hs EXCEPT ![h].pc = "delete_touch"]
    /\ was' = [was EXCEPT ![h] = instHeap[hs[h].inst].Status]
    /\ UNCHANGED <<cl, now, Applications, appHeap, sw, served>>

\* Variant of DeleteTouch that refreshes lastRenewal only when the instance
\* was not out of service yet.
DeleteTouchFirstOnly(h) ==
    /\ hs[h].pc = "delete_touch"
    /\ instHeap' = [instHeap EXCEPT ![hs[h].inst] =
                        IF was[h] = OUTOFSERVICE THEN @ ELSE Touch(@, now)]
    /\ hs' = [hs EXCEPT ![h] = Done(h, 204)]
    /\ UNCHANGED <<cl, was, now, Applications, appHeap, sw, served>>

\* deleteInstance: inst.Touch(); 204.
DeleteTouch(h) ==
    /\ hs[h].pc = "delete_touch"
    /\ instHeap' = [instHeap EXCEPT ![hs[h].inst] = Touch(@, now)]
    /\ hs' = [hs EXCEPT ![h] = Done(h, 204)]
    /\ UNCHANGED <<cl, was, now, Applications, appHeap, sw, served>>

\* The response has been written; the goroutine ends.
Return(h) ==
    /\ hs[h].pc = "done"
    /\ hs' = [hs EXCEPT ![h] = IdleHandler]
    /\ was' = [was EXCEPT ![h] = ""]
    /\ UNCHANGED <<cl, now, Applications, appHeap, instHeap, sw, served>>

\* ------------------------------------------------------- sweep goroutine
\* Application.CheckHeartbeats, one step per application: missed heartbeats
\* are marked DOWN, instances that were already DOWN and are past the eviction
\* timeout are removed from the slice (an instance marked in this pass stays).
AppCheckHeartbeats(a) ==
    /\ instHeap' = [p \in DOMAIN instHeap |->
                      IF InApp(a, p) /\ MissedHeartbeat(instHeap[p], now)
                      THEN [instHeap[p] EXCEPT !.Status = DOWN]
                      ELSE instHeap[p]]
    /\ appHeap' = [appHeap EXCEPT ![a].Instances = SelectSeq(@, Kept)]

\* Variant of SweepStart whose pass visits every application twice.
SweepStartTwice ==
    /\ sw.pc = "idle"
    /\ sw' = [pc |-> "walk", apps |-> Applications \o Applications, idx |-> 1]
    /\ UNCHANGED <<cl, was, now, Applications, appHeap, instHeap, hs, served>>

\* Server.CheckHeartbeats: for _, app := range s.Applications (the range
\* expression is evaluated once).
SweepStart ==
    /\ sw.pc = "idle"
    /\ sw' = [pc |-> "walk", apps |-> Applications, idx |-> 1]
    /\ UNCHANGED <<cl, was, now, Applications, appHeap, instHeap, hs, served>>

\* Variant of SweepApp whose loop variable is stuck on the last application of
\* the range.
SweepAppLast ==
    /\ sw.pc = "walk"
    /\ sw.idx <= Len(sw.apps)
    /\ AppCheckHeartbeats(sw.apps[Len(sw.apps)])
    /\ sw' = [sw EXCEPT !.idx = @ + 1]
    /\ UNCHANGED <<cl, was, now, Applications, hs, served>>

\* The loop body: app.CheckHeartbeats().
SweepApp ==
    /\ sw.pc = "walk"
    /\ sw.idx <= Len(sw.apps)
    /\ AppCheckHeartbeats(sw.apps[sw.idx])
    /\ sw' = [sw EXCEPT !.idx = @ + 1]
    /\ UNCHANGED <<cl, was, now, Applications, hs, served>>

\* The range is exhausted; <-time.After(1 * time.Second).
SweepEnd ==
    /\ sw.pc = "walk"
    /\ sw.idx > Len(sw.apps)
    /\ sw' = [pc |-> "idle", apps |-> <<>>, idx |-> 0]
    /\ UNCHANGED <<cl, was, now, Applications, appHeap, instHeap, hs, served>>

\* ------------------------------------------------------------------ clock
Tick(TS) ==
    /\ \E t \in TS : t > now /\ now' = t
    /\ UNCHANGED <<cl, was, Applications, appHeap, instHeap, hs, sw, served>>

NextOver(HS, TS) ==
    \/ \E h \in HS, name \in AppNames : PostApps(h, name)
    \/ \E h \in HS : AppsRead(h)
    \/ \E h \in HS : AppsWrite(h)
    \/ \E h \in HS : ListApps(h)
    \/ \E h \in HS, m \in {"GET", "POST"}, name \in AppNames, id \in InstIds :
          ViewApp(h, m, name, id)
    \/ \E h \in HS : AddCheck(h)
    \/ \E h \in HS : AddRead(h)
    \/ \E h \in HS : AddWrite(h)
    \/ \E h \in HS, m \in {"GET", "PUT", "DELETE"}, name \in AppNames, id \in InstIds :
          ViewInstance(h, m, name, id)
    \/ \E h \in HS : InstGet(h)
    \/ \E h \in HS : RenewCheck(h)
    \/ \E h \in HS : RenewUp(h)
    \/ \E h \in HS : RenewTouch(h)
    \/ \E h \in HS : DeleteSet(h)
    \/ \E h \in HS : DeleteTouch(h)
    \/ \E h \in HS : Return(h)
    \/ SweepStart
    \/ SweepApp
    \/ SweepEnd
    \/ Tick(TS)

\* Concurrent request goroutines and the sweep goroutine.
Next == NextOver(Handlers, RaceTimes)

Spec == Init /\ [][Next]_vars

\* One request at a time beside the sweep goroutine, on the fine time grid.
TimedNext == NextOver({1}, TimePoints)

TimedSpec == Init /\ [][TimedNext]_vars

\* Registrations only (no renewal, no deregistration), with the scheduling the
\* runtime gives: the sweep goroutine loops forever, the clock advances, and a
\* request goroutine that can take its next step eventually takes it.
LiveNames == {"a1"}

LiveIds == {"i1"}

HandlerStep(h) ==
    AppsRead(h) \/ AppsWrite(h) \/ AddCheck(h) \/ AddRead(h) \/ AddWrite(h)

LiveNext ==
    \/ \E h \in Handlers, name \in LiveNames : PostApps(h, name)
    \/ \E h \in Handlers, name \in LiveNames, id \in LiveIds :
          ViewApp(h, "POST", name, id)
    \/ \E h \in Handlers : HandlerStep(h)
    \/ \E h \in Handlers : Return(h)
    \/ SweepStart
    \/ SweepApp
    \/ SweepEnd
    \/ Tick(RaceTimes)

LiveSpec ==
    /\ Init
    /\ [][LiveNext]_vars
    /\ WF_vars(SweepStart)
    /\ WF_vars(SweepApp)
    /\ WF_vars(SweepEnd)
    /\ WF_vars(Tick(RaceTimes))
    /\ \A h \in Handlers : WF_vars(HandlerStep(h))

\* Sweep ticks that nothing interleaves with: the request goroutine and the
\* clock move only between two passes of Server.CheckHeartbeats.
Between == sw.pc = "idle"

\* <-time.After(1 * time.Second) returns and the next pass begins: the clock
\* has moved on by one period, here to the next point of the time grid.
TickerFires ==
    /\ sw.pc = "idle"
    /\ \E t \in TimePoints :
          /\ t > now
          /\ \A u \in TimePoints : u > now => t <= u
          /\ now' = t
    /\ sw' = [pc |-> "walk", apps |-> Applications, idx |-> 1]
    /\ UNCHANGED <<cl, was, Applications, appHeap, instHeap, hs, served>>

QuietNext ==
    \/ \E name \in AppNames : Between /\ PostApps(1, name)
    \/ Between /\ AppsRead(1)
    \/ Between /\ AppsWrite(1)
    \/ Between /\ ListApps(1)
    \/ \E m \in {"GET", "POST"}, name \in AppNames, id \in InstIds :
          Between /\ ViewApp(1, m, name, id)
    \/ Between /\ AddCheck(1)
    \/ Between /\ AddRead(1)
    \/ Between /\ AddWrite(1)
    \/ \E m \in {"GET", "PUT", "DELETE"}, name \in AppNames, id \in InstIds :
          Between /\ ViewInstance(1, m, name, id)
    \/ Between /\ InstGet(1)
    \/ Between /\ RenewCheck(1)
    \/ Between /\ RenewUp(1)
    \/ Between /\ RenewTouch(1)
    \/ Between /\ DeleteSet(1)
    \/ Between /\ DeleteTouch(1)
    \/ Between /\ Return(1)
    \/ TickerFires
    \/ SweepStart
    \/ SweepApp
    \/ SweepEnd

QuietSpec == Init /\ [][QuietNext]_vars

\* ------------------------------------------------- the client's filter
\* An Application as a client holds it (decoded from the server's answer):
\* up to MaxLen instances in any order, every mix of the four statuses.
Statuses == {STARTING, UP, DOWN, OUTOFSERVICE}

FilterIds == <<"i1", "i2", "i3", "i4">>

Orders(n) == {f \in [1..n -> 1..n] : \A i, j \in 1..n : f[i] = f[j] => i = j}

FilterInit ==
    /\ now = 0
    /\ Applications = <<1>>
    /\ \E n \in 0..MaxLen :
          /\ \E st \in [1..n -> Statuses] :
                instHeap = [p \in 1..n |->
                              [Id |-> FilterIds[p], Status |-> st[p], LastRenewal |-> 0]]
          /\ \E f \in Orders(n) :
                appHeap = <<[Name |-> "a1", Instances |-> f]>>
    /\ hs = [h \in Handlers |-> IdleHandler]
    /\ sw = [pc |-> "idle", apps |-> <<>>, idx |-> 0]
    /\ served = 0
    /\ cl = [c \in Handlers |-> "get_app"]
    /\ was = [h \in Handlers |-> ""]

\* a.GetAvailableInstances(); the returned slice is kept in snap.
Available(h, a) ==
    /\ hs[h].pc = "idle"
    /\ hs' = [hs EXCEPT ![h] =
                [IdleHandler EXCEPT !.pc = "done", !.method = "AVAILABLE", !.app = a,
                                    !.snap = GetAvailableInstances(a), !.code = 200]]
    /\ UNCHANGED <<cl, was, now, Applications, appHeap, instHeap, sw, served>>

FilterNext ==
    \/ \E h \in Handlers, a \in DOMAIN appHeap : Available(h, a)
    \/ \E h \in Handlers : Return(h)

FilterSpec == FilterInit /\ [][FilterNext]_vars

\* ---------------------------------------------------------------- clients
\* Client.RegisterService(id, appName, ip, port): client c registers instance
\* ClientIds[c] of application ClientApp; its requests are served by request
\* goroutine c.  The application exists beforehand or not.
Clients == Handlers

ClientApp == "a1"

ClientIds == <<"i1", "i2", "i3">>

ClientInit ==
    /\ now = 0
    /\ \/ Applications = <<>> /\ appHeap = <<>>
       \/ Applications = <<1>> /\ appHeap = <<NewApplication(ClientApp)>>
    /\ instHeap = <<>>
    /\ hs = [h \in Handlers |-> IdleHandler]
    /\ sw = [pc |-> "idle", apps |-> <<>>, idx |-> 0]
    /\ served = 0
    /\ cl = [c \in Clients |-> "get_app"]
    /\ was = [h \in Handlers |-> ""]

\* c.GetApp(appName): GET /apps (listApps reads s.Applications once) and the
\* search of the answer for the name.
GetApp(c) ==
    /\ cl[c] = "get_app"
    /\ hs[c].pc = "idle"
    /\ cl' = [cl EXCEPT ![c] =
                IF GetApplication(ClientApp) # Nil THEN "new_instance" ELSE "new_app"]
    /\ UNCHANGED <<now, Applications, appHeap, instHeap, hs, sw, served, was>>

\* c.NewApp(appName): POST /apps ...
NewAppRequest(c) ==
    /\ cl[c] = "new_app"
    /\ PostApps(c, ClientApp)

\* ... which expects 201; any other code makes RegisterService return the error.
NewAppResponse(c) ==
    /\ cl[c] = "new_app"
    /\ hs[c].pc = "done"
    /\ cl' = [cl EXCEPT ![c] = IF hs[c].code = 201 THEN "new_instance" ELSE "failed"]
    /\ hs' = [hs EXCEPT ![c] = IdleHandler]
    /\ UNCHANGED <<now, Applications, appHeap, instHeap, sw, served, was>>

\* c.NewInstance(app, id, ip, port): POST /apps/{appName} ...
NewInstanceRequest(c) ==
    /\ cl[c] = "new_instance"
    /\ ViewApp(c, "POST", ClientApp, ClientIds[c])

\* ... which expects 201 as well.
NewInstanceResponse(c) ==
    /\ cl[c] = "new_instance"
    /\ hs[c].pc = "done"
    /\ cl' = [cl EXCEPT ![c] = IF hs[c].code = 201 THEN "registered" ELSE "failed"]
    /\ hs' = [hs EXCEPT ![c] = IdleHandler]
    /\ UNCHANGED <<now, Applications, appHeap, instHeap, sw, served, was>>

ClientNext ==
    \/ \E c \in Clients : GetApp(c)
    \/ \E c \in Clients : NewAppRequest(c)
    \/ \E c \in Clients : NewAppResponse(c)
    \/ \E c \in Clients : NewInstanceRequest(c)
    \/ \E c \in Clients : NewInstanceResponse(c)
    \/ \E c \in Clients : HandlerStep(c)
    \/ SweepStart
    \/ SweepApp
    \/ SweepEnd

ClientSpec == ClientInit /\ [][ClientNext]_vars

\* -------------------------------------------------------------- heartbeat
\* The client of the package example: RegisterService, then RenewInstance in a
\* loop with <-time.After(30 * time.Second) between the calls.  The clock is
\* read every renewInterval; a renewal in flight is overtaken by at most one
\* step of the clock.
renewInterval == 30

MaxBeats == 22

Beaters == {1}

InFlight == {"first_sent", "first_late", "renew_sent", "renew_late"}

\* c.RenewInstance(app, inst): PUT /apps/{appName}/{instanceId}, as in
\* ViewInstance.
BeatRequest(c) ==
    /\ cl[c] \in {"registered", "renew_due"}
    /\ hs[c].pc = "idle"
    /\ cl' = [cl EXCEPT ![c] = IF @ = "registered" THEN "first_sent" ELSE "renew_sent"]
    /\ LET a == GetApplication(ClientApp)
           r == [IdleHandler EXCEPT !.method = "PUT", !.name = ClientApp,
                                    !.id = ClientIds[c], !.app = a]
       IN  hs' = [hs EXCEPT ![c] =
                IF a = Nil THEN [IdleHandler EXCEPT !.pc = "done", !.method = "PUT", !.code = 404]
                ELSE [r EXCEPT !.pc = "inst_get"]]
    /\ UNCHANGED <<now, Applications, appHeap, instHeap, sw, served, was>>

\* The steps of the request goroutine that serves the renewal.
BeatStep(c) ==
    InstGet(c) \/ RenewCheck(c) \/ RenewUp(c) \/ RenewTouch(c)

\* RenewInstance returns (204 expected); the loop goes to sleep.
BeatResponse(c) ==
    /\ cl[c] \in InFlight
    /\ hs[c].pc = "done"
    /\ cl' = [cl EXCEPT ![c] = IF hs[c].code = 204 THEN "renew_wait" ELSE "failed"]
    /\ hs' = [hs EXCEPT ![c] = IdleHandler]
    /\ was' = [was EXCEPT ![c] = ""]
    /\ UNCHANGED <<now, Applications, appHeap, instHeap, sw, served>>

\* renewInterval goes by: a sleeping loop wakes up, a renewal in flight is late.
BeatTick ==
    /\ now + renewInterval <= MaxBeats * renewInterval
    /\ \A c \in Beaters : cl[c] \in {"first_sent", "renew_sent", "renew_wait"}
    /\ now' = now + renewInterval
    /\ cl' = [c \in DOMAIN cl |->
                IF c \notin Beaters THEN cl[c]
                ELSE IF cl[c] = "first_sent" THEN "first_late"
                ELSE IF cl[c] = "renew_sent" THEN "renew_late"
                ELSE "renew_due"]
    /\ UNCHANGED <<Applications, appHeap, instHeap, hs, sw, served, was>>

HeartbeatNext ==
    \/ \E c \in Beaters : GetApp(c)
    \/ \E c \in Beaters : NewAppRequest(c)
    \/ \E c \in Beaters : NewAppResponse(c)
    \/ \E c \in Beaters : NewInstanceRequest(c)
    \/ \E c \in Beaters : NewInstanceResponse(c)
    \/ \E c \in Beaters : HandlerStep(c)
    \/ \E c \in Beaters : BeatRequest(c)
    \/ \E c \in Beaters : BeatStep(c)
    \/ \E c \in Beaters : BeatResponse(c)
    \/ BeatTick
    \/ SweepStart
    \/ SweepApp
    \/ SweepEnd

HeartbeatSpec == Init /\ [][HeartbeatNext]_vars

\* ------------------------------------------------------------- properties
StepOf(h) == hs'[h] # hs[h]

OthersSame(p) == \A q \in DOMAIN instHeap : q # p => instHeap'[q] = instHeap[q]

ListsSame == Applications' = Applications /\ appHeap' = appHeap

Status(p) == instHeap[p].Status

LastRenewal(p) == instHeap[p].LastRenewal

\* C1: a renewal that finds its instance OUT_OF_SERVICE at the status check is
\* answered 403 and writes nothing: the status and lastRenewal of the instance
\* (and every other object) are as before, however long ago it was deregistered.
C1_RenewOutOfServiceRejected ==
    [][\A h \in Handlers :
          (/\ hs[h].pc = "renew_check"
           /\ Status(hs[h].inst) = OUTOFSERVICE
           /\ StepOf(h))
          => /\ hs'[h].pc = "done"
             /\ hs'[h].code = 403
             /\ instHeap' = instHeap
             /\ ListsSame]_vars

\* A PUT answered 403 long after the deregistration, the instance untouched.
C1_Witness ==
    \E h \in Handlers :
        /\ hs[h].pc = "done" /\ hs[h].method = "PUT" /\ hs[h].code = 403
        /\ Status(hs[h].inst) = OUTOFSERVICE
        /\ now - LastRenewal(hs[h].inst) > evictionTimeout

\* C2: OUT_OF_SERVICE is terminal: no step of any goroutine takes an instance
\* out of OUT_OF_SERVICE, whatever the interleaving of renew, deregister and
\* sweep steps.
C2_OutOfServiceTerminal ==
    [][\A p \in DOMAIN instHeap :
          Status(p) = OUTOFSERVICE => instHeap'[p].Status = OUTOFSERVICE]_vars

\* C3: a renewal that finds its instance STARTING, UP or DOWN at the status
\* check goes on; its status step leaves the instance UP; its Touch step sets
\* lastRenewal to the current time and answers 204; none of its steps changes
\* another instance, an instance list or the application list.
C3_RenewSucceeds ==
    [][\A h \in Handlers :
          /\ (/\ hs[h].pc = "renew_check"
              /\ Status(hs[h].inst) \in {STARTING, UP, DOWN}
              /\ StepOf(h))
             => /\ hs'[h].pc = "renew_up"
                /\ instHeap' = instHeap
                /\ ListsSame
          /\ (hs[h].pc = "renew_up" /\ StepOf(h))
             => /\ hs'[h].pc = "renew_touch"
                /\ instHeap'[hs[h].inst].Status = UP
                /\ instHeap'[hs[h].inst].LastRenewal = LastRenewal(hs[h].inst)
                /\ OthersSame(hs[h].inst)
                /\ ListsSame
          /\ (hs[h].pc = "renew_touch" /\ StepOf(h))
             => /\ hs'[h].pc = "done"
                /\ hs'[h].code = 204
                /\ instHeap'[hs[h].inst].LastRenewal = now
                /\ instHeap'[hs[h].inst].Status = Status(hs[h].inst)
                /\ OthersSame(hs[h].inst)
                /\ ListsSame]_vars

\* A PUT answered 204 at a later time than the registration, the instance UP
\* with lastRenewal the time of the renewal.
C3_Witness ==
    \E h \in Handlers :
        /\ hs[h].pc = "done" /\ hs[h].method = "PUT" /\ hs[h].code = 204
        /\ Status(hs[h].inst) = UP
        /\ LastRenewal(hs[h].inst) = now
        /\ now > 0

\* C4: deregistration of an existing instance is never refused: from every
\* status the lookup hands the instance to deleteInstance, whose status step
\* leaves it OUT_OF_SERVICE (also when it already was) and whose last step
\* answers 204 with the status as it found it; a DELETE that found its instance
\* never ends with another code.
C4_DeregisterNeverFails ==
    [][\A h \in Handlers :
          /\ (/\ hs[h].pc = "inst_get"
              /\ hs[h].method = "DELETE"
              /\ GetInstance(hs[h].app, hs[h].id) # Nil
              /\ StepOf(h))
             => hs'[h].pc = "delete_set"
          /\ (hs[h].pc = "delete_set" /\ StepOf(h))
             => /\ hs'[h].pc = "delete_touch"
                /\ instHeap'[hs[h].inst].Status = OUTOFSERVICE
          /\ (hs[h].pc = "delete_touch" /\ StepOf(h))
             => /\ hs'[h].pc = "done"
                /\ hs'[h].code = 204
                /\ instHeap'[hs[h].inst].Status = Status(hs[h].inst)
          /\ (/\ hs'[h].pc = "done"
              /\ hs'[h].method = "DELETE"
              /\ hs'[h].inst # Nil)
             => hs'[h].code = 204]_vars

\* Two DELETE requests on the same instance, both answered 204, the instance
\* OUT_OF_SERVICE.
C4_Witness ==
    \E h, g \in Handlers :
        /\ h # g
        /\ hs[h].pc = "done" /\ hs[h].method = "DELETE" /\ hs[h].code = 204
        /\ hs[g].pc = "done" /\ hs[g].method = "DELETE" /\ hs[g].code = 204
        /\ hs[h].inst = hs[g].inst
        /\ Status(hs[h].inst) = OUTOFSERVICE

\* The sweep goroutine runs the loop body on application a in this step.
SweepStepOn(a) ==
    /\ sw.pc = "walk"
    /\ sw.idx <= Len(sw.apps)
    /\ sw.apps[sw.idx] = a
    /\ sw'.pc = "walk"
    /\ sw'.idx = sw.idx + 1

\* The sweep goroutine has just run the loop body on application a.
SweptLast(a) ==
    /\ sw.pc = "walk"
    /\ sw.idx > 1
    /\ sw.apps[sw.idx - 1] = a

InstancesOf(a) == {appHeap[a].Instances[k] : k \in 1..Len(appHeap[a].Instances)}

InstancesOfNext(a) == {appHeap'[a].Instances[k] : k \in 1..Len(appHeap'[a].Instances)}

\* C5: on a sweep step over an application, an instance of it that is STARTING
\* or UP becomes DOWN if and only if now - lastRenewal > renewalTimeout (90 s),
\* keeps its status otherwise, and keeps its lastRenewal either way.
C5_MissedHeartbeat ==
    [][\A a \in DOMAIN appHeap :
          SweepStepOn(a) =>
             \A p \in InstancesOf(a) :
                Status(p) \in {STARTING, UP} =>
                   /\ instHeap'[p].Status = DOWN <=> now - LastRenewal(p) > renewalTimeout
                   /\ instHeap'[p].Status \in {DOWN, Status(p)}
                   /\ instHeap'[p].LastRenewal = LastRenewal(p)]_vars

\* Right after a sweep step: an instance last renewed 91 s ago is DOWN, one of
\* the same application last renewed 90 s ago still has its status.
C5_Witness ==
    \E a \in DOMAIN appHeap : \E p, q \in InstancesOf(a) :
        /\ SweptLast(a)
        /\ Status(p) = DOWN
        /\ now - LastRenewal(p) = renewalTimeout + 1
        /\ Status(q) \in {STARTING, UP}
        /\ now - LastRenewal(q) = renewalTimeout

LastTime == CHOOSE t \in RaceTimes : \A u \in RaceTimes : u <= t

\* Instance p has been registered, early enough for the clock to pass its
\* eviction timeout, is not deregistered and has not been renewed since.
Silent(p) ==
    /\ p \in DOMAIN instHeap
    /\ Status(p) # OUTOFSERVICE
    /\ LastRenewal(p) + evictionTimeout < LastTime

IsDown(p) == p \in DOMAIN instHeap /\ Status(p) = DOWN

Absent(p) == \A a \in DOMAIN appHeap : p \notin InstancesOf(a)

\* C7: with the sweep and the clock running, every registered instance that is
\* not deregistered and is no longer renewed is eventually marked DOWN and
\* later is absent from its application's instance list.
C7_TwoStageDecayLive ==
    \A p \in 1..MaxInsts :
        <>[]Silent(p) => (<>IsDown(p) /\ <>(IsDown(p) /\ Absent(p)))

AddedOk(h) ==
    /\ hs[h].pc = "done"
    /\ hs[h].method = "POST"
    /\ hs[h].code = 201
    /\ hs[h].inst # Nil

\* C8: two AddInstance requests with distinct ids on the same application that
\* were both answered 201 leave both instances in the application's list (the
\* instances still STARTING, so that no sweep can have removed them).
C8_ConcurrentRegistrationSafe ==
    \A h, g \in Handlers :
        (/\ h # g
         /\ AddedOk(h) /\ AddedOk(g)
         /\ hs[h].app = hs[g].app
         /\ instHeap[hs[h].inst].Id # instHeap[hs[g].inst].Id
         /\ Status(hs[h].inst) = STARTING /\ Status(hs[g].inst) = STARTING)
        => {hs[h].inst, hs[g].inst} \subseteq InstancesOf(hs[h].app)

\* C9: no application holds two instances with the same id.
C9_NoDuplicateInstanceIds ==
    \A a \in DOMAIN appHeap :
        \A k, l \in 1..Len(appHeap[a].Instances) :
            k # l => instHeap[appHeap[a].Instances[k]].Id
                        # instHeap[appHeap[a].Instances[l]].Id

\* C10: the registry holds at most one application per name.
C10_NoDuplicateAppNames ==
    \A k, l \in 1..Len(Applications) :
        k # l => appHeap[Applications[k]].Name # appHeap[Applications[l]].Name

\* C11: a renewal and the sweep on one instance are linearized: when a renewal
\* answers 204 (no other request in flight), the instance is as a renewal run
\* alone leaves it, before or after the sweep step: UP, lastRenewal the current
\* time, and a member of its application's instance list.
C11_RenewSweepLinearized ==
    [][\A h \in Handlers :
          (/\ hs[h].pc = "renew_touch"
           /\ \A g \in Handlers \ {h} : hs[g].pc = "idle"
           /\ StepOf(h))
          => /\ hs'[h].code = 204
             /\ instHeap'[hs[h].inst].Status = UP
             /\ instHeap'[hs[h].inst].LastRenewal = now
             /\ hs[h].inst \in InstancesOfNext(hs[h].app)]_vars

\* C12: monotonic decay: an instance that the sweep has removed stays out of
\* every instance list, and a registration whose id is not in the list goes
\* on, is answered 201 and puts a new instance in the list, STARTING with
\* lastRenewal the time newInstance ran, while every older instance object
\* (the evicted one included) is left as it was.
C12_MonotonicDecay ==
    [][/\ \A p \in DOMAIN instHeap : Absent(p) => Absent(p)'
       /\ \A h \in Handlers :
             /\ (hs[h].pc = "idle" /\ hs'[h].pc = "add_check")
                => hs'[h].obj = [Id |-> hs'[h].id, Status |-> STARTING,
                                 LastRenewal |-> now]
             /\ (/\ hs[h].pc = "add_check"
                 /\ GetInstance(hs[h].app, hs[h].id) = Nil
                 /\ StepOf(h))
                => hs'[h].pc = "add_read"
             /\ (hs[h].pc = "add_write" /\ StepOf(h))
                => /\ hs'[h].code = 201
                   /\ hs'[h].inst \notin DOMAIN instHeap
                   /\ hs'[h].inst \in InstancesOfNext(hs[h].app)
                   /\ instHeap'[hs'[h].inst] =
                         [Id |-> hs[h].id, Status |-> STARTING,
                          LastRenewal |-> hs[h].obj.LastRenewal]
                   /\ \A q \in DOMAIN instHeap : instHeap'[q] = instHeap[q]]_vars

\* The positions of the UP instances in the instance list of application a.
UpIndexes(a) ==
    {k \in 1..Len(appHeap[a].Instances) : Status(appHeap[a].Instances[k]) = UP}

\* C13: GetAvailableInstances returns exactly the instances whose status is
\* UP, each once and in the order of the application's instance list, for
\* every mix of statuses, and leaves the application and its instances as they
\* were.
C13_AvailableExactlyUp ==
    [][\A h \in Handlers :
          (hs[h].pc = "idle" /\ hs'[h].method = "AVAILABLE") =>
             LET a == hs'[h].app
                 res == hs'[h].snap
             IN  /\ Len(res) = Cardinality(UpIndexes(a))
                 /\ \A k \in UpIndexes(a) :
                       res[Cardinality({l \in UpIndexes(a) : l <= k})]
                          = appHeap[a].Instances[k]
                 /\ instHeap' = instHeap
                 /\ ListsSame]_vars

\* A list of three with a non-UP instance between two UP ones, the pointers in
\* descending order: the result holds the two UP ones in list order.
C13_Witness ==
    \E h \in Handlers :
        /\ hs[h].pc = "done" /\ hs[h].method = "AVAILABLE"
        /\ Len(appHeap[hs[h].app].Instances) = 3
        /\ Status(appHeap[hs[h].app].Instances[2]) \in {STARTING, DOWN, OUTOFSERVICE}
        /\ hs[h].snap = <<appHeap[hs[h].app].Instances[1], appHeap[hs[h].app].Instances[3]>>
        /\ hs[h].snap[1] > hs[h].snap[2]

\* Every client's call of RegisterService has returned.
Finished == \A c \in Clients : cl[c] \in {"registered", "failed"}

AppsNamed(name) ==
    {k \in 1..Len(Applications) : appHeap[Applications[k]].Name = name}

\* C14: when the calls of RegisterService (same application name, distinct ids,
\* the application there beforehand or not) have returned, each has succeeded,
\* there is exactly one application of that name, and it holds every client's
\* instance in status STARTING.
C14_RegisterService ==
    Finished =>
        /\ \A c \in Clients : cl[c] = "registered"
        /\ Cardinality(AppsNamed(ClientApp)) = 1
        /\ \A c \in Clients : \A k \in AppsNamed(ClientApp) :
              \E p \in InstancesOf(Applications[k]) :
                  instHeap[p].Id = ClientIds[c] /\ Status(p) = STARTING

\* C15: only the sweep removes instances: no step of a request goroutine
\* (renew, deregister, get, list, add; answered with success or not) takes an
\* instance out of an application's instance list, and the deregistration of
\* a listed instance leaves it in the list with status OUT_OF_SERVICE.
C15_OnlySweepRemoves ==
    [][\A h \in Handlers :
          StepOf(h) =>
             /\ \A a \in DOMAIN appHeap : InstancesOf(a) \subseteq InstancesOfNext(a)
             /\ (hs[h].pc = "delete_set" /\ hs[h].inst \in InstancesOf(hs[h].app))
                => /\ hs[h].inst \in InstancesOfNext(hs[h].app)
                   /\ instHeap'[hs[h].inst].Status = OUTOFSERVICE]_vars

C17_SecondDeregisterNoOp ==
    [][\A h \in Handlers :
          /\ (/\ hs[h].pc = "delete_set"
              /\ Status(hs[h].inst) = OUTOFSERVICE
              /\ StepOf(h))
             => instHeap' = instHeap /\ ListsSame
          /\ (/\ hs[h].pc = "delete_touch"
              /\ was[h] = OUTOFSERVICE
              /\ StepOf(h))
             => /\ hs'[h].code = 204
                /\ instHeap' = instHeap
                /\ ListsSame]_vars

\* C17 (amended): the deregistration of an instance that is already
\* OUT_OF_SERVICE is answered 204, leaves its status and every other object
\* and list as they were, and sets its lastRenewal to the current time again.
C17_SecondDeregisterTouches ==
    [][\A h \in Handlers :
          /\ (/\ hs[h].pc = "delete_set"
              /\ Status(hs[h].inst) = OUTOFSERVICE
              /\ StepOf(h))
             => instHeap' = instHeap /\ ListsSame
          /\ (/\ hs[h].pc = "delete_touch"
              /\ was[h] = OUTOFSERVICE
              /\ StepOf(h))
             => /\ hs'[h].code = 204
                /\ instHeap'[hs[h].inst] =
                      [instHeap[hs[h].inst] EXCEPT !.LastRenewal = now]
                /\ OthersSame(hs[h].inst)
                /\ ListsSame]_vars

\* A DELETE on an instance that was already OUT_OF_SERVICE has been answered
\* 204 at a later time than the registration: the instance is OUT_OF_SERVICE,
\* its lastRenewal the time of this request.
C17_Witness ==
    \E h \in Handlers :
        /\ hs[h].pc = "done" /\ hs[h].method = "DELETE" /\ hs[h].code = 204
        /\ was[h] = OUTOFSERVICE
        /\ Status(hs[h].inst) = OUTOFSERVICE
        /\ LastRenewal(hs[h].inst) = now
        /\ now > 0

Beating(c) ==
    cl[c] \in {"registered", "renew_wait", "renew_due"} \cup InFlight

\* The instance client c registered, Nil if its application does not list it.
BeatInstance(c) ==
    IF GetApplication(ClientApp) = Nil THEN Nil
    ELSE GetInstance(GetApplication(ClientApp), ClientIds[c])

\* C19: a client that registers once and then renews every 30 s is never
\* demoted: no renewal of it fails, its instance is always in the
\* application's list and never DOWN, and it is UP from the first renewal on.
C19_WellBehavedNeverDemoted ==
    \A c \in Beaters :
        /\ cl[c] # "failed"
        /\ Beating(c) =>
              /\ BeatInstance(c) # Nil
              /\ Status(BeatInstance(c)) \in {STARTING, UP}
        /\ cl[c] \in {"renew_wait", "renew_due", "renew_sent", "renew_late"} =>
              Status(BeatInstance(c)) = UP

\* Eleven minutes after the registration, a sweep pass at work: the instance
\* is UP and listed.
C19_Witness ==
    \E c \in Beaters :
        /\ cl[c] = "renew_wait"
        /\ now > evictionTimeout + renewInterval
        /\ sw.pc = "walk" /\ sw.idx > 1
        /\ BeatInstance(c) # Nil
        /\ Status(BeatInstance(c)) = UP

\* The instances in the lists of the registered applications.
Listed == {p \in DOMAIN instHeap :
             \E k \in 1..Len(Applications) : p \in InstancesOf(Applications[k])}

\* The sweep tick ends in this step.
TickEnds == sw.pc = "walk" /\ sw'.pc = "idle"

\* C20: right after a sweep tick that no request interleaved
\* with, every listed STARTING or UP instance has now - lastRenewal <=
\* renewalTimeout and every listed DOWN instance has now - lastRenewal <=
\* evictionTimeout.
C20_BoundedStaleness ==
    [][TickEnds =>
          \A p \in Listed :
             /\ Status(p) \in {STARTING, UP} => now - LastRenewal(p) <= renewalTimeout
             /\ Status(p) = DOWN => now - LastRenewal(p) <= evictionTimeout]_vars

====
